---- MODULE Spec2Model ----
(***************************************************************************)
(* video2frame: frames are extracted from each video of an annotation list *)
(* by an external transcoder into a transient directory, sampled, and      *)
(* written to a key-value store (HDF5 or LMDB) under keys                  *)
(* "{video_ith:08d}/{frame_ith:08d}".  A loader reads the HDF5 store back. *)
(*                                                                         *)
(* Indices are 0-based as in the source: video_ith ranges over             *)
(* 0..len(annotations)-1 and annotations[ith] is Anno(ith).                *)
(***************************************************************************)
EXTENDS Integers, Sequences, FiniteSets, TLC

(* Bounds of the model. *)
MaxVideos == 2      \* longest annotation list
MaxFrames == 2      \* most frames the transcoder yields; largest --sample
MaxTot    == 5      \* longest frame list handed to sample_frames on its own
MaxN      == 5      \* largest n handed to sample_frames on its own

(* Basenames of the video files (Path(video_info['path']).name). *)
Names == {"a.mp4", "b.mp4"}

VARIABLES
    args,         \* parsed command line: db_type, threads, not_remove, sample_mode, sample
    annotations,  \* the annotation list; each entry: basename of its path, transcoder yield
    pc,           \* position of the main program
    opened,       \* what the database held when the storage was opened
    store,        \* contents of the database file: key -> value
    dirs,         \* transient directories that exist under args.tmp_dir
    fs,           \* files of each transient directory: frame number -> bytes
    state,        \* per video: Pending, Transcoding, Sampling, Writing, Done, Failed
    files,        \* per video: the sampled frame list (local variable of process)
    puts,         \* per video: the puts process issued that succeeded, in order
    result,       \* per video: "OK" or the message of the exception raised
    attempts,     \* per video: how many times process was called with it
    calls,        \* per video: how many times the transcoder was invoked for it
    lines,        \* per video: status lines written by the driver
    closes,       \* number of frame_db.close() calls
    latePuts,     \* number of puts attempted after close
    loaded,       \* the loader's last __getitem__: its arguments and outcome
    sIn,          \* sample_frames on its own: the arguments
    sOut          \* sample_frames on its own: the outcome

vars == <<args, annotations, pc, opened, store, dirs, fs, state, files, puts, result,
          attempts, calls, lines, closes, latePuts, loaded, sIn, sOut>>

cfgVars  == <<args, annotations>>
sampVars == <<sIn, sOut>>

----------------------------------------------------------------------------
(* Helpers *)

Idx == 0 .. Len(annotations) - 1
Anno(ith) == annotations[ith + 1]

(* The ascending sequence of the elements of a finite set of integers. *)
RECURSIVE SortedSeq(_)
SortedSeq(S) ==
    IF S = {} THEN <<>>
    ELSE LET m == CHOOSE x \in S : \A y \in S : x <= y
         IN <<m>> \o SortedSeq(S \ {m})

(* The bytes the transcoder writes as frame number id of video ith. *)
FrameBytes(ith, id) == <<ith, id>>

(* What a previous run left under a key in the database file. *)
Stale == <<"stale">>

----------------------------------------------------------------------------
(* Storage backends *)

(* key = "{:08d}/{:08d}".format(video_ith, frame_ith): the pair, which the
   zero-padded text determines and is determined by. *)
Key(video_ith, frame_ith) == <<video_ith, frame_ith>>

(* frame_db.put(key, s if args.db_type == 'LMDB' else np.void(s)) *)
Encode(db_type, s) == IF db_type = "LMDB" THEN s ELSE [void |-> s]

Bind(db, k, v) == [x \in DOMAIN db \cup {k} |-> IF x = k THEN v ELSE db[x]]

(* HDF5Storage.put: h5py refuses to create a dataset whose name exists. *)
HDF5Put(db, k, v) ==
    IF k \in DOMAIN db THEN [ok |-> FALSE, db |-> db]
    ELSE [ok |-> TRUE, db |-> Bind(db, k, v)]

(* LMDBStorage.put: txn.put(k, v) with the default overwrite=True. *)
LMDBPut(db, k, v) == [ok |-> TRUE, db |-> Bind(db, k, v)]

StoragePut(db_type, db, k, v) ==
    IF db_type = "LMDB" THEN LMDBPut(db, k, v) ELSE HDF5Put(db, k, v)

(* HDF5Storage.__init__ opens with mode 'w', which truncates; lmdb.open
   keeps what the environment holds. *)
OpenStorage(db_type, onDisk) ==
    IF db_type = "LMDB" THEN onDisk ELSE <<>>

----------------------------------------------------------------------------
(* sample_frames *)

(* Python's round() of num/den, den > 0, num >= 0: half to even. *)
Round(num, den) ==
    LET q == num \div den
        r == num % den
    IN IF 2 * r < den THEN q
       ELSE IF 2 * r > den THEN q + 1
       ELSE IF q % 2 = 0 THEN q ELSE q + 1

(* step = tot / (n - 1) in place of (tot - 1.) / (n - 1). *)
UniformStepWide(tot, n, x) == Round(x * tot, n - 1)

(* step = (tot - 1.) / (n - 1); index = [round(x * step) for x in range(n)]
   as a sequence of 0-based positions.  The double arithmetic agrees with
   the exact quotient for every tot < 16. *)
UniformStep(tot, n, x) == Round(x * (tot - 1), n - 1)

UniformIndex(tot, n) ==
    IF n = 1 THEN << tot \div 2 >>
    ELSE [i \in 1 .. n |-> UniformStep(tot, n, i - 1)]

(* frames[::n] as 0-based positions. *)
ModIndex(tot, n) == SortedSeq({x \in 0 .. tot - 1 : x % n = 0})

(* shuffle(frames); frames[:min(n, tot)]; sort: every choice of min(n, tot)
   positions, ascending. *)
RandomIndexes(tot, n) ==
    LET k == IF n < tot THEN n ELSE tot
    IN {SortedSeq(S) : S \in {T \in SUBSET (0 .. tot - 1) : Cardinality(T) = k}}

(* frames[x] of a Python list: x in -tot..tot-1, negative x from the end. *)
InRange(tot, x) == -tot <= x /\ x < tot
At(frames, x) == IF x < 0 THEN frames[Len(frames) + x + 1] ELSE frames[x + 1]

Pick(frames, index) == [i \in 1 .. Len(index) |-> At(frames, index[i])]

(* The outcomes of sample_frames(args, frames): err is the exception raised
   ("" for none), frames the list returned. *)
SampleFrames(mode, n, frames) ==
    LET tot == Len(frames) IN
    IF mode = 0 THEN {[err |-> "", frames |-> frames]}
    ELSE IF n <= 0 THEN {[err |-> "AssertionError", frames |-> <<>>]}
    ELSE IF mode = 1 THEN
        IF \E i \in 1 .. n : ~InRange(tot, UniformIndex(tot, n)[i])
        THEN {[err |-> "IndexError", frames |-> <<>>]}
        ELSE {[err |-> "", frames |-> Pick(frames, UniformIndex(tot, n))]}
    ELSE IF mode = 2 THEN
        {[err |-> "", frames |-> Pick(frames, ix)] : ix \in RandomIndexes(tot, n)}
    ELSE IF mode = 3 THEN
        {[err |-> "", frames |-> Pick(frames, ModIndex(tot, n))]}
    ELSE {[err |-> "AttributeError", frames |-> <<>>]}

----------------------------------------------------------------------------
(* Initial states *)

(* Frame counts and sample sizes tried: none, one, the most. *)
Counts == {0, 1, MaxFrames}

Videos == [name : Names, yield : Counts]

(* Basenames only matter up to equality: the first entry is a.mp4. *)
AnnotationLists ==
    {an \in UNION {[1 .. m -> Videos] : m \in 0 .. MaxVideos} :
        Len(an) > 0 => an[1].name = "a.mp4"}

(* --threads: the serial loop, a pool of one worker, a pool of two. *)
PoolSizes == {0, 1, 2}

(* <<--sample_mode, --sample>>; mode 4 stands for any value outside
   argparse's choices, and --sample 0 for any n <= 0 (one assert serves
   the three modes that take n). *)
SampleConfigs ==
    {<<0, 0>>, <<4, 0>>, <<1, 0>>} \cup ({1, 2, 3} \X (Counts \ {0}))

ArgSets ==
    {[db_type |-> d, threads |-> t, not_remove |-> nr,
      sample_mode |-> sc[1], sample |-> sc[2]] :
        d \in {"HDF5", "LMDB"}, t \in PoolSizes, nr \in BOOLEAN,
        sc \in SampleConfigs}

(* The database file before the run: absent, or left by a previous run that
   wrote the first frame of video 0. *)
PriorStores == {<<>>, [k \in {Key(0, 0)} |-> Stale]}

NoLoad == [index |-> -1, clip |-> 0, out |-> <<>>, err |-> ""]
NoSample == [mode |-> 0, n |-> 0, tot |-> 0]

InitRun(a, an, db) ==
    /\ args = a
    /\ annotations = an
    /\ pc = "start"
    /\ opened = <<>>
    /\ store = db
    /\ dirs = {}
    /\ fs = [nm \in Names |-> <<>>]
    /\ state = [v \in 0 .. Len(an) - 1 |-> "Pending"]
    /\ files = [v \in 0 .. Len(an) - 1 |-> <<>>]
    /\ puts = [v \in 0 .. Len(an) - 1 |-> <<>>]
    /\ result = [v \in 0 .. Len(an) - 1 |-> ""]
    /\ attempts = [v \in 0 .. Len(an) - 1 |-> 0]
    /\ calls = [v \in 0 .. Len(an) - 1 |-> 0]
    /\ lines = [v \in 0 .. Len(an) - 1 |-> 0]
    /\ closes = 0
    /\ latePuts = 0
    /\ loaded = NoLoad

Init ==
    /\ \E a \in ArgSets, an \in AnnotationLists, db \in PriorStores :
          InitRun(a, an, db)
    /\ sIn = NoSample
    /\ sOut = {}

----------------------------------------------------------------------------
(* Startup: parse_args and the opening of the storage *)

ValidSampleMode(mode) == mode \in {0, 1, 2, 3}

Startup ==
    /\ pc = "start"
    /\ IF ValidSampleMode(args.sample_mode)
       THEN /\ pc' = "run"
            /\ store' = OpenStorage(args.db_type, store)
            /\ opened' = store'
       ELSE /\ pc' = "aborted"
            /\ UNCHANGED <<store, opened>>
    /\ UNCHANGED <<cfgVars, dirs, fs, state, files, puts, result, attempts,
                   calls, lines, closes, latePuts, loaded, sampVars>>

----------------------------------------------------------------------------
(* process(args, video_ith, video_info, frame_db) *)

TmpDir(ith) == Anno(ith).name

Finished(v) == state[v] \in {"Done", "Failed"}
InFlight(v) == state[v] \in {"Transcoding", "Sampling", "Writing"}

Fail(v, msg) ==
    /\ state' = [state EXCEPT ![v] = "Failed"]
    /\ result' = [result EXCEPT ![v] = msg]

(* The driver hands video v to process: in order, one at a time when
   threads == 0, at most threads at a time otherwise. *)
CanStart(v) ==
    /\ state[v] = "Pending"
    /\ \A u \in Idx : u < v => state[u] # "Pending"
    /\ IF args.threads > 0
       THEN Cardinality({u \in Idx : InFlight(u)}) < args.threads
       ELSE \A u \in Idx : u < v => lines[u] > 0

Start(v) ==
    /\ pc = "run"
    /\ CanStart(v)
    /\ state' = [state EXCEPT ![v] = "Transcoding"]
    /\ attempts' = [attempts EXCEPT ![v] = @ + 1]
    /\ dirs' = dirs \cup {TmpDir(v)}
    /\ UNCHANGED <<cfgVars, opened, pc, store, fs, files, puts, result, calls, lines,
                   closes, latePuts, loaded, sampVars>>

(* subprocess.call(ffmpeg ... tmp_dir/%8d.jpg): frames 1..yield are written,
   replacing files of the same name; nothing is written if the directory
   is gone.  The call blocks until the transcoder exits, and its output is
   taken to appear as the call returns. *)
TranscoderOutput(v, old) ==
    LET n == Anno(v).yield
        len == IF Len(old) > n THEN Len(old) ELSE n
    IN [i \in 1 .. len |-> IF i <= n THEN FrameBytes(v, i) ELSE old[i]]

Transcode(v) ==
    /\ pc = "run"
    /\ state[v] = "Transcoding"
    /\ state' = [state EXCEPT ![v] = "Sampling"]
    /\ calls' = [calls EXCEPT ![v] = @ + 1]
    /\ fs' = IF TmpDir(v) \in dirs
             THEN [fs EXCEPT ![TmpDir(v)] = TranscoderOutput(v, @)]
             ELSE fs
    /\ UNCHANGED <<cfgVars, opened, pc, store, dirs, files, puts, result, attempts,
                   lines, closes, latePuts, loaded, sampVars>>

(* frames = [(int(f.name.split('.')[0]), f) for f in tmp_dir.iterdir()],
   sorted: the frame numbers present, ascending. *)
ListFrames(nm) == SortedSeq(DOMAIN fs[nm])

Enumerate(v) ==
    /\ pc = "run"
    /\ state[v] = "Sampling"
    /\ IF TmpDir(v) \notin dirs
       THEN Fail(v, "FileNotFoundError") /\ UNCHANGED files
       ELSE IF ListFrames(TmpDir(v)) = <<>>
       THEN Fail(v, "Extract frame failed") /\ UNCHANGED files
       ELSE \E out \in SampleFrames(args.sample_mode, args.sample,
                                    ListFrames(TmpDir(v))) :
               IF out.err # ""
               THEN Fail(v, out.err) /\ UNCHANGED files
               ELSE IF out.frames = <<>>
               THEN Fail(v, "No frames in video") /\ UNCHANGED files
               ELSE /\ state' = [state EXCEPT ![v] = "Writing"]
                    /\ files' = [files EXCEPT ![v] = out.frames]
                    /\ UNCHANGED result
    /\ UNCHANGED <<cfgVars, opened, pc, store, dirs, fs, puts, attempts, calls,
                   lines, closes, latePuts, loaded, sampVars>>

(* The transcoder's frame number in place of the position in files. *)
KeyPosFrameId(frame_ith, frame_id) == frame_id

(* The position a frame is stored under: enumerate(files) counts from 0. *)
KeyPos(frame_ith, frame_id) == frame_ith

(* One turn of the writing loop: read the frame file and put it. *)
Put(v) ==
    /\ pc \in {"run", "done"}
    /\ state[v] = "Writing"
    /\ Len(puts[v]) < Len(files[v])
    /\ LET frame_ith == Len(puts[v])
           frame_id == files[v][frame_ith + 1]
           nm == TmpDir(v)
           key == Key(v, KeyPos(frame_ith, frame_id))
       IN IF nm \notin dirs \/ frame_id \notin DOMAIN fs[nm]
          THEN /\ Fail(v, "Video exists in database")
               /\ UNCHANGED <<store, puts, latePuts>>
          ELSE IF closes > 0
          THEN /\ Fail(v, "Video exists in database")
               /\ latePuts' = latePuts + 1
               /\ UNCHANGED <<store, puts>>
          ELSE LET r == StoragePut(args.db_type, store, key,
                                   Encode(args.db_type, fs[nm][frame_id]))
               IN IF r.ok
                  THEN /\ store' = r.db
                       /\ puts' = [puts EXCEPT ![v] = Append(@,
                               [pos |-> key[2], bytes |-> fs[nm][frame_id]])]
                       /\ UNCHANGED <<state, result, latePuts>>
                  ELSE /\ Fail(v, "Video exists in database")
                       /\ UNCHANGED <<store, puts, latePuts>>
    /\ UNCHANGED <<cfgVars, opened, pc, dirs, fs, files, attempts, calls, lines,
                   closes, loaded, sampVars>>

(* After the loop: shutil.rmtree(tmp_dir) unless --not_remove; return "OK". *)
Cleanup(v) ==
    /\ pc \in {"run", "done"}
    /\ state[v] = "Writing"
    /\ Len(puts[v]) = Len(files[v])
    /\ state' = [state EXCEPT ![v] = "Done"]
    /\ result' = [result EXCEPT ![v] = "OK"]
    /\ IF args.not_remove
       THEN UNCHANGED <<dirs, fs>>
       ELSE /\ dirs' = dirs \ {TmpDir(v)}
            /\ fs' = [fs EXCEPT ![TmpDir(v)] = <<>>]
    /\ UNCHANGED <<cfgVars, opened, pc, store, files, puts, attempts, calls, lines,
                   closes, latePuts, loaded, sampVars>>

----------------------------------------------------------------------------
(* The driver *)

(* except RuntimeError in place of except Exception. *)
CaughtRuntimeOnly(msg) ==
    msg \in {"OK", "Extract frame failed", "No frames in video",
             "Video exists in database"}

(* except Exception as e: every exception process raises is an Exception
   (RuntimeError, AssertionError, OSError, IndexError, AttributeError), so
   none leaves the loop; "OK" is the value returned. *)
Caught(msg) == TRUE

(* The status line of a video: written once its future is done
   (as_completed) or once process returned or raised (the serial loop). *)
Collect(v) ==
    /\ pc = "run"
    /\ Finished(v)
    /\ lines[v] = 0
    /\ IF Caught(result[v])
       THEN lines' = [lines EXCEPT ![v] = @ + 1] /\ UNCHANGED pc
       ELSE pc' = "crashed" /\ UNCHANGED lines
    /\ UNCHANGED <<cfgVars, opened, store, dirs, fs, state, files, puts,
                   result, attempts, calls, closes, latePuts, loaded, sampVars>>

(* Leaving the loop once every entry is submitted, without its result. *)
LoopDoneOnSubmit == \A v \in Idx : state[v] # "Pending"

(* Both loops end when every entry has its status line. *)
LoopDone == \A v \in Idx : lines[v] > 0

Close ==
    /\ pc = "run"
    /\ LoopDone
    /\ closes' = closes + 1
    /\ pc' = "done"
    /\ UNCHANGED <<cfgVars, opened, store, dirs, fs, state, files, puts, result,
                   attempts, calls, lines, latePuts, loaded, sampVars>>

----------------------------------------------------------------------------
(* The loader: VideoDataset.__getitem__(index), up to the bytes it hands to
   the image decoder *)

(* self.database["{:08d}".format(index)]: the group's members. *)
Group(db, index) == {k \in DOMAIN db : k[1] = index}

(* Positions counted from 1 in place of 0. *)
FrameIndexFromOne(len, clip) ==
    IF clip = 0 THEN [i \in 1 .. len |-> i]
    ELSE [i \in 1 .. clip |-> 1 + Round((i - 1) * (len - 1), clip - 1)]

(* The frame positions read, for a group of len members; clip is
   num_frames_per_clip (>= 0, not 1). *)
FrameIndex(len, clip) ==
    IF clip = 0 THEN [i \in 1 .. len |-> i - 1]
    ELSE [i \in 1 .. clip |-> Round((i - 1) * (len - 1), clip - 1)]

(* np.asarray(dataset).tostring() of a value stored as np.void(s). *)
ToBytes(val) == val.void

GetItemResult(db, index, clip) ==
    LET len == Cardinality(Group(db, index))
        fi == FrameIndex(len, clip)
    IN IF len = 0 THEN [err |-> "KeyError", out |-> <<>>]
       \* "{:08d}".format(len(frames_binary) / 2): a float has no 'd' format
       ELSE IF clip = 1 THEN [err |-> "ValueError", out |-> <<>>]
       ELSE IF \E i \in DOMAIN fi : Key(index, fi[i]) \notin DOMAIN db
       THEN [err |-> "KeyError", out |-> <<>>]
       ELSE [err |-> "",
             out |-> [i \in DOMAIN fi |-> ToBytes(db[Key(index, fi[i])])]]

GetItem(index, clip) ==
    /\ pc = "done"
    /\ args.db_type = "HDF5"
    /\ loaded = NoLoad
    /\ loaded' = [index |-> index, clip |-> clip,
                  out |-> GetItemResult(store, index, clip).out,
                  err |-> GetItemResult(store, index, clip).err]
    /\ UNCHANGED <<cfgVars, opened, pc, store, dirs, fs, state, files, puts, result,
                   attempts, calls, lines, closes, latePuts, sampVars>>

Next ==
    \/ Startup
    \/ \E v \in Idx : Start(v)
    \/ \E v \in Idx : Transcode(v)
    \/ \E v \in Idx : Enumerate(v)
    \/ \E v \in Idx : Put(v)
    \/ \E v \in Idx : Cleanup(v)
    \/ \E v \in Idx : Collect(v)
    \/ Close
    \/ \E v \in Idx, clip \in Counts : GetItem(v, clip)

Spec == Init /\ [][Next]_vars

----------------------------------------------------------------------------
(* sample_frames on its own, over frame lists 1..tot *)

SampleInputs == [mode : 0 .. 4, n : -1 .. MaxN, tot : 0 .. MaxTot]

InitSample ==
    /\ InitRun([db_type |-> "HDF5", threads |-> 0, not_remove |-> FALSE,
                sample_mode |-> 0, sample |-> 0], <<>>, <<>>)
    /\ sIn \in SampleInputs
    /\ sOut = {}

ApplySample ==
    /\ sOut = {}
    /\ sOut' = SampleFrames(sIn.mode, sIn.n, [i \in 1 .. sIn.tot |-> i])
    /\ UNCHANGED <<cfgVars, opened, pc, store, dirs, fs, state, files, puts, result,
                   attempts, calls, lines, closes, latePuts, loaded, sIn>>

NextSample == ApplySample

SpecSample == InitSample /\ [][NextSample]_vars

----------------------------------------------------------------------------
(* Serial ingestion (threads == 0) as a function of the inputs: the keys the
   store holds when the loop over the annotations has ended.  left[nm] is
   the number of frame files in transient directory nm. *)

SampledCount(mode, n, tot) ==
    LET out == CHOOSE o \in SampleFrames(mode, n, [i \in 1 .. tot |-> i]) : TRUE
    IN IF out.err # "" THEN 0 ELSE Len(out.frames)

RECURSIVE SerialKeys(_, _, _)
SerialKeys(ith, left, keys) ==
    IF ith >= Len(annotations) THEN keys
    ELSE LET nm == Anno(ith).name
             tot == IF left[nm] > Anno(ith).yield THEN left[nm]
                    ELSE Anno(ith).yield
             k == SampledCount(args.sample_mode, args.sample, tot)
         IN SerialKeys(ith + 1,
                [left EXCEPT ![nm] = IF k > 0 /\ ~args.not_remove THEN 0 ELSE tot],
                keys \cup {Key(ith, p) : p \in 0 .. k - 1})

SerialStoreKeys ==
    SerialKeys(0, [nm \in Names |-> 0],
               DOMAIN opened)

(* The serial loop of the model ends with exactly these keys. *)
SerialModelAgrees ==
    (pc = "done" /\ args.threads = 0) => DOMAIN store = SerialStoreKeys

----------------------------------------------------------------------------
(* Properties *)

StoredPositions(v) == {k[2] : k \in Group(store, v)}
WrittenBytes(v) == [i \in 1 .. Len(puts[v]) |-> puts[v][i].bytes]
NextKey(v) ==
    Key(v, KeyPos(Len(puts[v]), files[v][Len(puts[v]) + 1]))
BadSampling(a) ==
    \/ ~ValidSampleMode(a.sample_mode)
    \/ a.sample_mode # 0 /\ a.sample <= 0

(* C1: when a run with a worker pool (threads >= 1) has ended, the store
   holds exactly the keys that serial ingestion (threads == 0) of the same
   annotation list, with the same transcoder yields, leaves in it. *)
C1_PoolWritesSerialKeys ==
    (pc = "done" /\ args.threads > 0) => DOMAIN store = SerialStoreKeys

(* C2: in both driver modes no video is handed to process twice or reported
   twice, and when the run has ended (normally, or by an exception leaving
   the loop) every video was handed to process exactly once, has finished
   and has exactly one status line, whatever failed before it. *)
C2_EveryVideoOnce ==
    /\ \A v \in Idx : attempts[v] <= 1 /\ lines[v] <= 1
    /\ pc \in {"done", "crashed"} =>
          \A v \in Idx : /\ attempts[v] = 1
                         /\ lines[v] = 1
                         /\ Finished(v)
                         /\ result[v] # ""

C2_FailureThenSuccess ==
    /\ pc = "done"
    /\ \E u, v \in Idx : /\ u < v
                         /\ state[u] = "Failed" /\ lines[u] = 1
                         /\ state[v] = "Done" /\ lines[v] = 1

(* C3: close() is called at most once, only when every video is Done or
   Failed, a run that reaches its end has called it, and no put is
   attempted after it. *)
C3_ClosedOnceAfterAll ==
    /\ closes <= 1
    /\ closes = 1 => \A v \in Idx : Finished(v)
    /\ pc = "done" => closes = 1
    /\ latePuts = 0

C3_ClosedAfterPoolRun ==
    /\ closes = 1
    /\ args.threads = 2
    /\ \E v \in Idx : state[v] = "Failed"
    /\ \E v \in Idx : state[v] = "Done" /\ Len(puts[v]) > 0

(* C4: at every point the positions stored under a video index are
   0..k-1 for some k >= 0, and the i-th put of a video is at position
   i-1. *)
C4_PositionsArePrefix ==
    /\ \A v \in {k[1] : k \in DOMAIN store} :
          StoredPositions(v) = 0 .. Cardinality(StoredPositions(v)) - 1
    /\ \A v \in Idx : \A i \in 1 .. Len(puts[v]) : puts[v][i].pos = i - 1

C4_FailedPartWay ==
    \E u, v \in Idx :
        /\ u # v
        /\ state[v] = "Failed"
        /\ Len(puts[v]) >= 1
        /\ Len(puts[v]) < Len(files[v])
        /\ Len(puts[u]) >= 1

(* C5: no two videos in flight at the same time use the same transient
   directory. *)
C5_TmpDirsDisjoint ==
    \A u, v \in Idx :
        (u # v /\ InFlight(u) /\ InFlight(v)) => TmpDir(u) # TmpDir(v)

(* C6: in a run started with a bad sampling configuration (n <= 0 for a
   mode other than keep_all, or an unrecognized mode) the transcoder is
   never invoked and nothing is put. *)
C6_BadSamplingAbortsAtStartup ==
    BadSampling(args) => \A v \in Idx : calls[v] = 0 /\ puts[v] = <<>>

(* C7: a turn of the writing loop whose key already exists in the store
   fails the video with "Video exists in database" and leaves the store as
   it was. *)
C7_ExistingKeyRejected ==
    [][\A v \in Idx :
          (Put(v) /\ NextKey(v) \in DOMAIN store) =>
              (result'[v] = "Video exists in database" /\ store' = store)]_vars

(* C8 as stated: for a video ingested successfully, the loader's
   __getitem__ returns the bytes written for it, as many and in the same
   order, whatever num_frames_per_clip is. *)
C8_RoundTripAnyClip ==
    \A v \in Idx :
        (loaded.index = v /\ result[v] = "OK") =>
            (loaded.err = "" /\ loaded.out = WrittenBytes(v))

(* C8 amended: for a video ingested successfully, a loader with
   num_frames_per_clip == 0 (no re-sampling) returns the bytes written for
   it, as many and in the same order. *)
C8_RoundTripUnsampled ==
    \A v \in Idx :
        (loaded.index = v /\ loaded.clip = 0 /\ result[v] = "OK") =>
            (loaded.err = "" /\ loaded.out = WrittenBytes(v))

C8_ReadBackTwoFrames ==
    \E v \in Idx :
        /\ loaded.index = v /\ loaded.clip = 0 /\ result[v] = "OK"
        /\ Len(loaded.out) = 2

(* C9: in a run with a valid sampling configuration, nothing is ever put
   under the index of a video for which the transcoder yields no frame, and
   once finished the video is Failed with "Extract frame failed". *)
C9_NoFramesFails ==
    \A v \in Idx :
        (Anno(v).yield = 0 /\ ~BadSampling(args)) =>
            /\ puts[v] = <<>>
            /\ Finished(v) =>
                  (state[v] = "Failed" /\ result[v] = "Extract frame failed")

(* C10: uniform sampling of n >= 2 out of N >= 1 frames raises nothing and
   returns n frames whose positions lie in 0..N-1, never decrease, start at
   0 and end at N-1; for n == N they are 0, 1, ..., N-1.  (The frame list
   is 1..N, so a frame's position is its value minus 1.) *)
C10_UniformPositions ==
    (sOut # {} /\ sIn.mode = 1 /\ sIn.n >= 2 /\ sIn.tot >= 1) =>
        \A o \in sOut :
            /\ o.err = ""
            /\ Len(o.frames) = sIn.n
            /\ \A i \in 1 .. sIn.n : o.frames[i] - 1 \in 0 .. sIn.tot - 1
            /\ \A i \in 1 .. sIn.n - 1 : o.frames[i] <= o.frames[i + 1]
            /\ o.frames[1] - 1 = 0
            /\ o.frames[sIn.n] - 1 = sIn.tot - 1
            /\ sIn.n = sIn.tot => o.frames = [i \in 1 .. sIn.tot |-> i]

C10_TieRoundsToEven ==
    /\ sIn.mode = 1 /\ sIn.n = 3 /\ sIn.tot = 2
    /\ sOut = {[err |-> "", frames |-> <<1, 1, 2>>]}

====
